---- MODULE Spec2Model ----
(***************************************************************************)
(* The ELF relocator of armips: the archive reader (loadArArchive), the    *)
(* object table built by ElfRelocator::init, exportSymbols, and the        *)
(* relocate / relocateFile pass, as a state machine over the relocator's   *)
(* fields and the shared symbol table.                                     *)
(***************************************************************************)
EXTENDS Integers, Sequences, FiniteSets, TLC

(***************************************************************************)
(* ELF constants used by the relocator.                                    *)
(***************************************************************************)
SHT_PROGBITS == 1
SHT_NOBITS == 8
SHT_REL == 9
SHF_ALLOC == 2
STT_NOTYPE == 0
STT_OBJECT == 1
STT_FUNC == 2
SHN_ABS == 65521
SHN_COMMON == 65522
\* sizeof(Elf32_Rel): r_offset and r_info, 4 bytes each
SizeofElf32Rel == 8
\* sizeof(ArFileHeader): 16+12+6+6+8+10+2
SizeofArFileHeader == 60
\* the relocation type the architecture hook patches as a 32-bit absolute word
R_ABS32 == 2

\* the element of a one-element set; {e(x) : x \in {v}} evaluates v once
Only(S) == CHOOSE x \in S : TRUE

\* a null pointer; a pointer to x is <<x>>
NULL == <<>>

(***************************************************************************)
(* Bounds of the model.                                                    *)
(***************************************************************************)
\* objects per archive
MaxFiles == 2
\* labels the rest of the assembler defines in the shared symbol table
MaxDefines == 1

(***************************************************************************)
(* Characters, as their codes.                                             *)
(***************************************************************************)
ChSlash == 47
ChBackslash == 92
ChSpace == 32
ChZero == 48

\* tolower() of the C locale on one char
ToLowerChar(c) == IF c >= 65 /\ c <= 90 THEN c + 32 ELSE c

\* toWLowercase: the fold applied to every char of the string
toWLowercase(str) == [i \in 1..Len(str) |-> ToLowerChar(str[i])]

(***************************************************************************)
(* ByteArray: a sequence of bytes; a 32-bit word is its four bytes, least  *)
(* significant first.                                                      *)
(***************************************************************************)
Zeros(n) == [i \in 1..n |-> 0]

\* reserveBytes(n): zero-extend by n
reserveBytes(data, n) == data \o Zeros(n)

\* getDoubleWord(pos): the four bytes at pos (0-based)
getDoubleWord(data, pos) == [i \in 1..4 |-> data[pos + i]]

\* replaceDoubleWord(pos, w)
replaceDoubleWord(data, pos, w) ==
  [i \in 1..Len(data) |-> IF i > pos /\ i <= pos + 4 THEN w[i - pos] ELSE data[i]]

\* memcpy(dst.data(at), src.data(), src.size())
Memcpy(dst, at, src) ==
  [i \in 1..Len(dst) |-> IF i > at /\ i <= at + Len(src) THEN src[i - at] ELSE dst[i]]

\* mid(pos, size)
Mid(data, pos, size) == [i \in 1..size |-> data[pos + i]]

\* opcode + n in 32 bits, on the little-endian bytes of the word
RECURSIVE AddWordFrom(_, _, _)
AddWordFrom(w, n, i) ==
  IF i > 4 THEN w
  ELSE LET s == w[i] + (n % 256)
       IN  AddWordFrom([w EXCEPT ![i] = s % 256], (n \div 256) + (s \div 256), i + 1)

AddWord(w, n) == AddWordFrom(w, n, 1)

\* getCrc32 is used only to compare two images; the digest is taken to be
\* collision free over the images of the model
getCrc32(data) == data

(***************************************************************************)
(* Parsed ELF objects (what ElfFile::load hands to the relocator): the     *)
(* section table and the symbol table, both indexed from 0.                *)
(***************************************************************************)
NullSection == [type |-> 0, flags |-> 0, alignment |-> 0, size |-> 0, info |-> 0,
                data |-> <<>>, rels |-> <<>>]

ProgBits(flags, alignment, data) ==
  [type |-> SHT_PROGBITS, flags |-> flags, alignment |-> alignment, size |-> Len(data),
   info |-> 0, data |-> data, rels |-> <<>>]

NoBits(flags, alignment, size) ==
  [type |-> SHT_NOBITS, flags |-> flags, alignment |-> alignment, size |-> size,
   info |-> 0, data |-> <<>>, rels |-> <<>>]

RelSection(info, rels) ==
  [type |-> SHT_REL, flags |-> 0, alignment |-> 4, size |-> SizeofElf32Rel * Len(rels),
   info |-> info, data |-> <<>>, rels |-> rels]

\* Elf32_Rel with r_info = (symbol << 8) | type
Rel(offset, symNum, relType) == [r_offset |-> offset, r_info |-> symNum * 256 + relType]

\* Elf32_Sym with st_info = (binding << 4) | type
Sym(name, value, size, binding, type, shndx) ==
  [st_name |-> name, st_value |-> value, st_size |-> size,
   st_info |-> binding * 16 + type, st_shndx |-> shndx]

NullSym == Sym(<<>>, 0, 0, 0, STT_NOTYPE, 0)

N_ext == <<101, 120, 116>>
N_Ext == <<69, 120, 116>>
N_EXT == <<69, 88, 84>>
N_buf == <<98, 117, 102>>
N_Fn == <<70, 110>>
N_fn == <<102, 110>>
N_com == <<99, 111, 109>>
N_abs == <<97, 98, 115>>
N_note == <<110, 111, 116, 101>>

\* two sections of alignment 4 and 16, sizes 5 and 3, one COMMON object of
\* alignment 8 and size 16, one thumb function
ElfLayout ==
  [sections |-> << NullSection,
                   ProgBits(6, 4, <<1, 2, 3, 4, 5>>),
                   ProgBits(3, 16, <<6, 7, 8>>) >>,
   symbols |-> << NullSym,
                  Sym(N_buf, 8, 16, 1, STT_OBJECT, SHN_COMMON),
                  Sym(N_Fn, 1, 4, 1, STT_FUNC, 1) >>]

\* code that references the external symbol Ext, and keeps one symbol whose
\* name is empty
ElfCaller ==
  [sections |-> << NullSection,
                   ProgBits(6, 2, <<16, 0, 0, 0, 32, 0, 0, 0>>),
                   RelSection(1, << Rel(0, 2, R_ABS32) >>) >>,
   symbols |-> << NullSym,
                  Sym(<<>>, 0, 0, 0, 3, 1),
                  Sym(N_Ext, 0, 0, 1, STT_NOTYPE, 0),
                  Sym(<<>>, 4, 4, 0, STT_OBJECT, 1) >>]

\* the function ext
ElfCallee ==
  [sections |-> << NullSection,
                   ProgBits(6, 2, <<9, 9, 9, 9>>) >>,
   symbols |-> << NullSym,
                  Sym(N_ext, 2, 2, 1, STT_FUNC, 1) >>]

\* a non-loadable section, a NOBITS section with relocations, and data whose
\* relocations reference symbol 0, a symbol of a loadable section, a COMMON
\* symbol, an absolute symbol, a symbol of a non-loadable section, the
\* external symbol buf, and one relocation of a type the hook rejects
ElfMixed ==
  [sections |-> << NullSection,
                   ProgBits(0, 1, <<5, 5>>),
                   NoBits(3, 8, 4),
                   RelSection(2, << Rel(0, 1, R_ABS32) >>),
                   ProgBits(3, 1, <<1, 0, 0, 0, 2, 0, 0, 0, 3, 0, 0, 0, 4, 0, 0, 0,
                                    5, 0, 0, 0, 6, 0, 0, 0, 7, 0, 0, 0>>),
                   RelSection(4, << Rel(0, 0, R_ABS32), Rel(4, 1, R_ABS32),
                                    Rel(8, 2, R_ABS32), Rel(12, 3, R_ABS32),
                                    Rel(16, 4, R_ABS32), Rel(20, 5, R_ABS32),
                                    Rel(24, 1, 7) >>) >>,
   symbols |-> << NullSym,
                  Sym(N_EXT, 4, 4, 1, STT_OBJECT, 4),
                  Sym(N_com, 4, 6, 1, STT_OBJECT, SHN_COMMON),
                  Sym(N_abs, 32, 0, 1, STT_OBJECT, SHN_ABS),
                  Sym(N_note, 1, 1, 0, STT_OBJECT, 1),
                  Sym(N_buf, 0, 0, 1, STT_NOTYPE, 0) >>]

\* a section whose sh_addralign is 0 (no alignment constraint in ELF)
ElfUnaligned ==
  [sections |-> << NullSection,
                   ProgBits(3, 0, <<1>>) >>,
   symbols |-> << NullSym >>]

ElfObjects == << ElfLayout, ElfCaller, ElfCallee, ElfMixed, ElfUnaligned >>

\* ElfFile accessors
getSegmentlessSectionCount(elf) == Len(elf.sections)
getSegmentlessSection(elf, s) == elf.sections[s + 1]
getSymbolCount(elf) == Len(elf.symbols)
getSymbol(elf, i) == elf.symbols[i + 1]
getSymbolNum(rel) == rel.r_info \div 256
getType(rel) == rel.r_info % 256
HasFlag(flags, bit) == (flags \div bit) % 2 = 1

(***************************************************************************)
(* ElfRelocator::init, per archive entry: the loadable sections with their *)
(* relocation section, and the retained symbols.                           *)
(***************************************************************************)
\* the first SHT_REL section whose info is s, or NULL
RECURSIVE SearchRelSection(_, _, _)
SearchRelSection(elf, s, k) ==
  IF k >= getSegmentlessSectionCount(elf) THEN NULL
  ELSE LET relSection == getSegmentlessSection(elf, k)
       IN  IF relSection.type # SHT_REL THEN SearchRelSection(elf, s, k + 1)
           ELSE IF relSection.info # s THEN SearchRelSection(elf, s, k + 1)
           ELSE <<k>>

RECURSIVE LoadSections(_, _)
LoadSections(elf, s) ==
  IF s >= getSegmentlessSectionCount(elf) THEN <<>>
  ELSE LET sec == getSegmentlessSection(elf, s)
       IN  IF ~HasFlag(sec.flags, SHF_ALLOC) THEN LoadSections(elf, s + 1)
           ELSE IF sec.type = SHT_PROGBITS \/ sec.type = SHT_NOBITS
                THEN << [index |-> s, relSection |-> SearchRelSection(elf, s, 0)] >>
                     \o LoadSections(elf, s + 1)
                ELSE LoadSections(elf, s + 1)

\* relocatedAddress is not set by init: it holds whatever the memory held
RECURSIVE LoadSymbols(_, _, _)
LoadSymbols(elf, i, garbage) ==
  IF i >= getSymbolCount(elf) THEN <<>>
  ELSE LET symbol == getSymbol(elf, i)
           type == symbol.st_info % 16
       IN  IF type = STT_OBJECT \/ type = STT_FUNC
           THEN << [type |-> type,
                    name |-> toWLowercase(symbol.st_name),
                    relativeAddress |-> symbol.st_value,
                    section |-> symbol.st_shndx,
                    size |-> symbol.st_size,
                    label |-> NULL,
                    relocatedAddress |-> garbage,
                    elfIndex |-> i,
                    published |-> 0] >> \o LoadSymbols(elf, i + 1, garbage)
           ELSE LoadSymbols(elf, i + 1, garbage)

LoadFile(k, garbage) ==
  [elf |-> k,
   sections |-> LoadSections(ElfObjects[k], 0),
   symbols |-> LoadSymbols(ElfObjects[k], 0, garbage)]

ElfOf(file) == ElfObjects[file.elf]


(***************************************************************************)
(* The shared symbol table: one label per valid name, created on demand.   *)
(***************************************************************************)
isValidSymbolName(name) == Len(name) > 0 /\ ~(name[1] \in 48..57)

\* the names the loaded objects can look up
LabelNames ==
  UNION {{toWLowercase(ElfObjects[k].symbols[i].st_name) :
            i \in 1..Len(ElfObjects[k].symbols)} : k \in 1..Len(ElfObjects)}

Labels == {n \in LabelNames : isValidSymbolName(n)}

\* getLabel(name,-1,-1): NULL for a name that is no symbol name
getLabel(name) == IF isValidSymbolName(name) THEN <<name>> ELSE NULL

NewLabel == [defined |-> FALSE, value |-> 0, info |-> 0, updateInfo |-> TRUE, data |-> FALSE]

(***************************************************************************)
(* The architecture hook.                                                  *)
(***************************************************************************)
NewRelocationData ==
  [opcode |-> Zeros(4), opcodeOffset |-> 0, relocationBase |-> 0, symbolAddress |-> 0,
   targetSymbolType |-> STT_NOTYPE, targetSymbolInfo |-> 0, errorMessage |-> ""]

\* a function whose address has the mode bit set is entered in the other
\* instruction set; the bit is cleared and kept as the symbol's info
setSymbolAddress(data, address, type) ==
  IF type = STT_FUNC /\ address % 2 = 1
  THEN [data EXCEPT !.symbolAddress = address - 1, !.targetSymbolType = type,
                    !.targetSymbolInfo = 1]
  ELSE [data EXCEPT !.symbolAddress = address, !.targetSymbolType = type,
                    !.targetSymbolInfo = 0]

\* the hook patches a 32-bit absolute word and rejects every other type
relocateOpcode(type, data) ==
  IF type = R_ABS32
  THEN [ok |-> TRUE,
        data |-> [data EXCEPT !.opcode = AddWord(data.opcode, data.relocationBase)]]
  ELSE [ok |-> FALSE, data |-> [data EXCEPT !.errorMessage = "Unknown relocation type"]]


(***************************************************************************)
(* ElfRelocator::relocateFile.                                             *)
(***************************************************************************)
\* relocationOffsets[k] of a std::map<int,int>: 0 for a key never assigned
OffsetAt(relocationOffsets, k) ==
  IF k \in DOMAIN relocationOffsets THEN relocationOffsets[k] ELSE 0

\* mutant of AlignLoop: the alignment loop left out
AlignLoopNone(relocationAddress, alignment) == relocationAddress

\* mutant of AlignLoop: the address rounded down instead of up
AlignLoopDown(relocationAddress, alignment) ==
  relocationAddress - (relocationAddress % alignment)

\* while (relocationAddress % alignment) relocationAddress++;
RECURSIVE AlignLoop(_, _)
AlignLoop(relocationAddress, alignment) ==
  IF relocationAddress % alignment # 0
  THEN AlignLoop(relocationAddress + 1, alignment)
  ELSE relocationAddress

\* Phase A: calculate address for each section.  A section of alignment 0
\* makes the loop condition a division by zero, which stops the process.
RECURSIVE PlaceSections(_, _, _, _)
PlaceSections(elf, fi, i, st) ==
  IF i > Len(st.sections) \/ st.trap THEN st
  ELSE LET entry == st.sections[i]
           section == getSegmentlessSection(elf, entry.index)
       IN  IF section.alignment = 0 THEN [st EXCEPT !.trap = TRUE]
           ELSE LET address == AlignLoop(st.addr, section.alignment)
                IN  PlaceSections(elf, fi, i + 1,
                      [st EXCEPT !.addr = address + section.size,
                                 !.offsets = (entry.index :> address) @@ @,
                                 !.log = Append(@, [file |-> fi, index |-> entry.index,
                                                    before |-> st.addr,
                                                    address |-> address,
                                                    size |-> section.size])])

\* outputData.reserveBytes(relocationAddress-start) after the placement
SectionBlockSize(relocationAddress, start) == relocationAddress - start

\* mutant of ExternBase: the label's value not read
ExternBaseZero(label) == 0

\* relData.relocationBase = label->getValue()
ExternBase(label) == label.value

\* relData.relocationBase = relocationOffsets[symSection]+relData.symbolAddress
InternBase(relocationOffsets, symSection, relData) ==
  OffsetAt(relocationOffsets, symSection) + relData.symbolAddress

RelEvent(fi, index, i, rel, msg) ==
  [file |-> fi, index |-> index, entry |-> i, pos |-> rel.r_offset,
   symNum |-> getSymbolNum(rel), msg |-> msg, extern |-> FALSE, labelDefined |-> FALSE,
   labelValue |-> 0, invoked |-> FALSE, relocationBase |-> 0, opcodeOffset |-> 0]

\* the hook call and what follows it, lines 346-353
InvokeHook(rel, relData, sectionData, ev) ==
  LET r == relocateOpcode(getType(rel), relData)
      ev2 == [ev EXCEPT !.invoked = TRUE, !.relocationBase = relData.relocationBase,
                        !.opcodeOffset = relData.opcodeOffset]
  IN  IF ~r.ok
      THEN [data |-> sectionData, error |-> TRUE,
            ev |-> [ev2 EXCEPT !.msg = r.data.errorMessage]]
      ELSE [data |-> replaceDoubleWord(sectionData, rel.r_offset, r.data.opcode),
            error |-> FALSE, ev |-> ev2]

\* one iteration of the relocation loop, lines 302-353
RelocateEntry(elf, fi, index, i, rel, sectionData, relocationOffsets, table) ==
  LET pos == rel.r_offset
      symNum == getSymbolNum(rel)
      ev == RelEvent(fi, index, i, rel, "")
  IN  IF symNum <= 0
      THEN [data |-> sectionData, error |-> TRUE,
            ev |-> [ev EXCEPT !.msg = "Invalid symbol num"]]
      ELSE
        LET sym == getSymbol(elf, symNum)
            symSection == sym.st_shndx
            relData == setSymbolAddress(
                         [NewRelocationData EXCEPT
                            !.opcode = getDoubleWord(sectionData, pos),
                            !.opcodeOffset = pos + OffsetAt(relocationOffsets, index)],
                         sym.st_value, sym.st_info % 16)
        IN  IF relData.targetSymbolType = STT_NOTYPE /\ sym.st_shndx = 0
            THEN
              LET symName == toWLowercase(sym.st_name)
                  label == getLabel(symName)
                  evx == [ev EXCEPT !.extern = TRUE]
              IN  IF label = NULL
                  THEN [data |-> sectionData, error |-> TRUE,
                        ev |-> [evx EXCEPT !.msg = "Invalid external symbol"]]
                  ELSE IF table[symName].defined = FALSE
                  THEN [data |-> sectionData, error |-> TRUE,
                        ev |-> [evx EXCEPT !.msg = "Undefined external symbol"]]
                  ELSE InvokeHook(rel,
                         [relData EXCEPT
                            !.relocationBase = ExternBase(table[symName]),
                            !.targetSymbolType =
                               IF table[symName].data THEN STT_OBJECT ELSE STT_FUNC,
                            !.targetSymbolInfo = table[symName].info],
                         sectionData,
                         [evx EXCEPT !.labelDefined = TRUE,
                                     !.labelValue = table[symName].value])
            ELSE InvokeHook(rel,
                   [relData EXCEPT
                      !.relocationBase = InternBase(relocationOffsets, symSection, relData)],
                   sectionData, ev)

\* for (int i = 0; i < relCount; i++)
RECURSIVE RelocateEntries(_, _, _, _, _, _, _, _)
RelocateEntries(elf, fi, index, rels, i, relocationOffsets, table, st) ==
  IF i >= Len(rels) THEN st
  ELSE Only({RelocateEntries(elf, fi, index, rels, i + 1, relocationOffsets, table,
                               [data |-> r.data, error |-> st.error \/ r.error,
                                log |-> Append(st.log, r.ev)]) :
               r \in {RelocateEntry(elf, fi, index, i, rels[i + 1], st.data,
                                    relocationOffsets, table)}})

\* Phase B: load sections
RECURSIVE LoadSectionData(_, _, _, _, _, _, _, _)
LoadSectionData(elf, fi, sections, i, relocationOffsets, table, base, st) ==
  IF i > Len(sections) THEN st
  ELSE LET entry == sections[i]
           section == getSegmentlessSection(elf, entry.index)
       IN  IF section.type = SHT_NOBITS
           THEN LoadSectionData(elf, fi, sections, i + 1, relocationOffsets, table, base, st)
           ELSE
             LET rels == IF entry.relSection # NULL
                         THEN LET relSection ==
                                    getSegmentlessSection(elf, entry.relSection[1])
                              IN  SubSeq(relSection.rels, 1,
                                         relSection.size \div SizeofElf32Rel)
                         ELSE <<>>
                 r == RelocateEntries(elf, fi, entry.index, rels, 0, relocationOffsets,
                        table, [data |-> section.data, error |-> st.error,
                                log |-> st.relLog])
                 arrayStart == base + OffsetAt(relocationOffsets, entry.index)
             IN  LoadSectionData(elf, fi, sections, i + 1, relocationOffsets, table, base,
                   [out |-> Memcpy(st.out, arrayStart, r.data),
                    error |-> r.error,
                    relLog |-> r.log,
                    copyLog |-> Append(st.copyLog,
                                  [file |-> fi, index |-> entry.index,
                                   address |-> OffsetAt(relocationOffsets, entry.index),
                                   data |-> r.data])])

\* mutant of CommonReserve: the reserve of line 380 left out
CommonReserveNone(relocationAddress, start) == 0

\* outputData.reserveBytes(relocationAddress-start) of a COMMON symbol
CommonReserve(relocationAddress, start) == relocationAddress - start

\* mutant of SymbolMoved: a moved symbol not noticed
SymbolMovedNever(oldAddress, relocatedAddress) == FALSE

\* if (oldAddress != sym.relocatedAddress) dataChanged = true;
SymbolMoved(oldAddress, relocatedAddress) == oldAddress # relocatedAddress

\* Phase C: now update symbols.  A COMMON symbol whose alignment is 0 divides
\* by zero as a section of alignment 0 does.
RECURSIVE UpdateSymbols(_, _, _, _)
UpdateSymbols(fi, relocationOffsets, i, st) ==
  IF i > Len(st.symbols) \/ st.trap THEN st
  ELSE
    LET sym == st.symbols[i]
        oldAddress == sym.relocatedAddress
        start == st.addr
        aligned == IF sym.section = SHN_COMMON /\ sym.relativeAddress # 0
                   THEN AlignLoop(st.addr, sym.relativeAddress) ELSE st.addr
        relocatedAddress ==
          CASE sym.section = SHN_ABS -> sym.relativeAddress
            [] sym.section = SHN_COMMON -> aligned
            [] OTHER -> sym.relativeAddress + OffsetAt(relocationOffsets, sym.section)
        addr == IF sym.section = SHN_COMMON THEN aligned + sym.size ELSE st.addr
        out == IF sym.section = SHN_COMMON
               THEN reserveBytes(st.out, CommonReserve(addr, start)) ELSE st.out
    IN  IF sym.section = SHN_COMMON /\ sym.relativeAddress = 0
        THEN [st EXCEPT !.trap = TRUE]
        ELSE UpdateSymbols(fi, relocationOffsets, i + 1,
               [st EXCEPT
                  !.addr = addr,
                  !.out = out,
                  !.symbols[i].relocatedAddress = relocatedAddress,
                  !.table = IF sym.label # NULL
                            THEN [@ EXCEPT ![sym.label[1]].value = relocatedAddress]
                            ELSE @,
                  !.changed = @ \/ SymbolMoved(oldAddress, relocatedAddress),
                  !.log = IF sym.section = SHN_COMMON
                          THEN Append(@, [file |-> fi, symbol |-> i, before |-> start,
                                          alignment |-> sym.relativeAddress,
                                          size |-> sym.size,
                                          address |-> relocatedAddress,
                                          after |-> addr,
                                          sizeBefore |-> Len(st.out),
                                          sizeAfter |-> Len(out)])
                          ELSE @])

\* the end of relocateFile: what the three phases leave in the pass state
FileDone(fi, ps, A, B, C) ==
  IF C.trap THEN [ps EXCEPT !.trap = TRUE]
  ELSE [ps EXCEPT !.addr = C.addr,
                  !.out = C.out,
                  !.table = C.table,
                  !.files[fi].symbols = C.symbols,
                  !.changed = C.changed,
                  !.ok = @ /\ ~B.error,
                  !.placeLog = A.log,
                  !.relLog = B.relLog,
                  !.copyLog = B.copyLog,
                  !.comLog = C.log]

\* Phase C of relocateFile, after phases A and B
FilePhaseC(fi, ps, A, B) ==
  Only({FileDone(fi, ps, A, B, C) :
          C \in {UpdateSymbols(fi, A.offsets, 1,
                   [symbols |-> ps.files[fi].symbols, addr |-> A.addr, out |-> B.out,
                    table |-> ps.table, changed |-> ps.changed, trap |-> FALSE,
                    log |-> ps.comLog])}})

\* Phase B of relocateFile, after phase A: dataStart = outputData.size(), then
\* the reserve and the section loop
FilePhaseB(fi, ps, A) ==
  LET start == ps.addr
      dataStart == Len(ps.out)
  IN  Only({FilePhaseC(fi, ps, A, B) :
              B \in {LoadSectionData(ElfOf(ps.files[fi]), fi, ps.files[fi].sections, 1,
                       A.offsets, ps.table, dataStart - start,
                       [out |-> reserveBytes(ps.out, SectionBlockSize(A.addr, start)),
                        error |-> FALSE, relLog |-> ps.relLog,
                        copyLog |-> ps.copyLog])}})

\* relocateFile(file, relocationAddress) on the pass state ps
relocateFile(fi, ps) ==
  Only({IF A.trap THEN [ps EXCEPT !.trap = TRUE] ELSE FilePhaseB(fi, ps, A) :
          A \in {PlaceSections(ElfOf(ps.files[fi]), fi, 1,
                   [sections |-> ps.files[fi].sections, addr |-> ps.addr,
                    offsets |-> <<>>, trap |-> FALSE, log |-> ps.placeLog])}})

(***************************************************************************)
(* ElfRelocator::relocate.                                                 *)
(***************************************************************************)
\* mutant of ClearOutput: the image of the pass before kept
ClearOutputNone(data) == data

\* outputData.clear()
ClearOutput(data) == <<>>

RECURSIVE RelocateFiles(_, _)
RelocateFiles(fi, ps) ==
  IF fi > Len(ps.files) \/ ps.trap THEN ps
  ELSE Only({RelocateFiles(fi + 1, next) : next \in {relocateFile(fi, ps)}})

\* if (oldCrc != newCrc) dataChanged = true;
CrcDiffers(oldCrc, newCrc) == oldCrc # newCrc

relocate(fs, table, out, start) ==
  LET oldCrc == getCrc32(out)
  IN  Only({[ps EXCEPT !.changed = @ \/ CrcDiffers(oldCrc, getCrc32(ps.out)),
                       !.addr = @ - start] :
              ps \in {RelocateFiles(1,
                        [files |-> fs, table |-> table, out |-> ClearOutput(out),
                         addr |-> start, changed |-> FALSE, ok |-> TRUE, trap |-> FALSE,
                         placeLog |-> <<>>, relLog |-> <<>>, copyLog |-> <<>>,
                         comLog |-> <<>>])}})


(***************************************************************************)
(* ElfRelocator::exportSymbols.                                            *)
(***************************************************************************)
\* the body of the loop over one symbol, lines 219-246; met collects the
\* labels found already defined by the rest of the assembler
ExportSymbol(sym, st) ==
  IF sym.label # NULL THEN [st EXCEPT !.symbols = Append(@, sym)]
  ELSE
    LET label == getLabel(sym.name)
        attached == [sym EXCEPT !.label = label]
    IN  IF label = NULL
        THEN [st EXCEPT !.symbols = Append(@, attached), !.error = TRUE]
        ELSE IF st.table[sym.name].defined
        THEN [st EXCEPT !.symbols = Append(@, attached), !.error = TRUE,
                        !.met = IF sym.name \in st.foreign
                                THEN @ \cup {[name |-> sym.name,
                                              label |-> st.table[sym.name]]}
                                ELSE @]
        ELSE
          LET data == setSymbolAddress(
                        [NewRelocationData EXCEPT !.symbolAddress = sym.relativeAddress],
                        sym.relativeAddress, sym.type)
          IN  [st EXCEPT
                 !.symbols = Append(@, [attached EXCEPT
                                          !.relativeAddress = data.symbolAddress,
                                          !.published = @ + 1]),
                 !.table[sym.name] = [@ EXCEPT !.info = data.targetSymbolInfo,
                                               !.updateInfo = FALSE,
                                               !.value = 0,
                                               !.defined = TRUE]]

RECURSIVE ExportFileSymbols(_, _, _)
ExportFileSymbols(symbols, i, st) ==
  IF i > Len(symbols) THEN st
  ELSE ExportFileSymbols(symbols, i + 1, ExportSymbol(symbols[i], st))

RECURSIVE ExportFiles(_, _)
ExportFiles(fi, st) ==
  IF fi > Len(st.files) THEN st
  ELSE LET r == ExportFileSymbols(st.files[fi].symbols, 1, [st EXCEPT !.symbols = <<>>])
       IN  ExportFiles(fi + 1, [r EXCEPT !.files[fi].symbols = r.symbols])

exportSymbols(fs, table, foreign, met) ==
  ExportFiles(1, [files |-> fs, table |-> table, error |-> FALSE, symbols |-> <<>>,
                  foreign |-> foreign, met |-> met])

(***************************************************************************)
(* The archive reader.                                                     *)
(***************************************************************************)
\* std::wstring::npos stored in an int
npos == -1

\* path.find_last_of(L"/\\"): the 0-based index of the last separator
find_last_of(path) ==
  LET found == {i \in 1..Len(path) : path[i] = ChSlash \/ path[i] = ChBackslash}
  IN  IF found = {} THEN npos
      ELSE (CHOOSE i \in found : \A j \in found : j <= i) - 1

\* path.substr(n): from the 0-based index n to the end
substr(path, n) == SubSeq(path, n + 1, Len(path))

getFileNameFromPath(path) ==
  LET n == find_last_of(path)
  IN  IF n = npos THEN path ELSE substr(path, n)

\* convertUtf8ToWString on a NUL-terminated string, given as its chars
RECURSIVE ConvertUtf8From(_, _, _)
ConvertUtf8From(source, index, result) ==
  IF index > Len(source) THEN result
  ELSE
    LET value == source[index]
        extraBytes == IF value \in 192..223 THEN 1
                      ELSE IF value \in 224..239 THEN 2 ELSE 0
        first == IF value \in 192..223 THEN value % 32
                 ELSE IF value \in 224..239 THEN value % 16 ELSE value
        tail == SubSeq(source, index + 1, index + extraBytes)
    IN  IF extraBytes = 0 /\ value > 127 THEN <<>>
        ELSE IF Len(tail) < extraBytes \/ \E k \in 1..Len(tail) : ~(tail[k] \in 128..191)
        THEN <<>>
        ELSE LET wide == IF extraBytes = 0 THEN first
                         ELSE IF extraBytes = 1 THEN first * 64 + (tail[1] % 64)
                         ELSE (first * 64 + (tail[1] % 64)) * 64 + (tail[2] % 64)
             IN  ConvertUtf8From(source, index + 1 + extraBytes, Append(result, wide))

convertUtf8ToWString(source) == ConvertUtf8From(source, 1, <<>>)

ArMagic == <<33, 60, 97, 114, 99, 104, 62, 10>>
ElfMagic == <<127, 69, 76, 70>>

\* memcmp(input.data(pos), bytes, Len(bytes)) == 0
StartsWith(input, pos, bytes) ==
  /\ Len(input) >= pos + Len(bytes)
  /\ \A i \in 1..Len(bytes) : input[pos + i] = bytes[i]

\* the ASCII decimal fileSize, read up to the first space
RECURSIVE ParseFileSize(_, _, _)
ParseFileSize(fileSize, i, size) ==
  IF i >= 10 THEN size
  ELSE IF fileSize[i + 1] = ChSpace THEN size
  ELSE ParseFileSize(fileSize, i + 1, size * 10 + (fileSize[i + 1] - ChZero))

\* the file name up to the first space, without one trailing slash
RECURSIVE ParseFileName(_, _, _)
ParseFileName(fileName, i, copied) ==
  IF i >= 16 THEN copied
  ELSE IF fileName[i + 1] = ChSpace
       THEN IF i > 0 /\ copied[i] = ChSlash THEN SubSeq(copied, 1, i - 1) ELSE copied
       ELSE ParseFileName(fileName, i + 1, Append(copied, fileName[i + 1]))

\* the loop over the members of an ar archive, lines 61-107
RECURSIVE ArEntries(_, _, _)
ArEntries(input, pos, result) ==
  IF pos >= Len(input) THEN result
  ELSE
    LET fileName == Mid(input, pos, 16)
        fileSize == Mid(input, pos + 48, 10)
        body == pos + SizeofArFileHeader
        size == ParseFileSize(fileSize, 0, 0)
        found == IF StartsWith(input, body, ElfMagic)
                 THEN Append(result,
                        [name |-> convertUtf8ToWString(ParseFileName(fileName, 0, <<>>)),
                         data |-> Mid(input, body, size)])
                 ELSE result
        next == body + size
    IN  ArEntries(input, IF next % 2 # 0 THEN next + 1 ELSE next, found)

loadArArchive(inputName, input) ==
  IF ~StartsWith(input, 0, ArMagic)
  THEN IF ~StartsWith(input, 0, ElfMagic) THEN <<>>
       ELSE << [name |-> getFileNameFromPath(inputName), data |-> input] >>
  ELSE ArEntries(input, 8, <<>>)

\* input files: a member of an ar archive with its header, and whole files
Spaces(n) == [i \in 1..n |-> ChSpace]
PadTo(str, n) == str \o Spaces(n - Len(str))
Decimal(n) == IF n < 10 THEN <<ChZero + n>> ELSE <<ChZero + (n \div 10), ChZero + (n % 10)>>

ArMember(name, body) ==
  PadTo(name, 16) \o PadTo(<<ChZero>>, 12) \o PadTo(<<ChZero>>, 6) \o PadTo(<<ChZero>>, 6)
    \o PadTo(<<54, 52, 52>>, 8) \o PadTo(Decimal(Len(body)), 10) \o <<96, 10>>
    \o body \o (IF Len(body) % 2 # 0 THEN <<10>> ELSE <<>>)

BareElfFile == ElfMagic \o <<1, 1, 1, 0, 0, 0>>
ElfBodyA == ElfMagic \o <<1, 1>>
ElfBodyB == ElfMagic \o <<1, 1, 2>>
\* "/" (the symbol table), "a.o/" and "b.o/"
ArchiveFile ==
  ArMagic \o ArMember(<<ChSlash>>, <<0, 0, 0, 0>>)
          \o ArMember(<<97, 46, 111, ChSlash>>, ElfBodyA)
          \o ArMember(<<98, 46, 111, ChSlash>>, ElfBodyB)
EmptyArchiveFile == ArMagic
JunkFile == <<110, 111, 116, 32, 101, 108, 102, 10>>

InputFiles == {BareElfFile, ArchiveFile, EmptyArchiveFile, JunkFile}

\* the longest input path drawn from the path alphabet
MaxPathLen == 3
PathChars == {ChSlash, ChBackslash, 97, 46}
\* "dir/foo.o"
DirFooO == <<100, 105, 114, ChSlash, 102, 111, 111, 46, 111>>
InputPaths == UNION {[1..n -> PathChars] : n \in 1..MaxPathLen} \cup {DirFooO}

(***************************************************************************)
(* State.                                                                  *)
(***************************************************************************)
VARIABLES
  files,         \* ElfRelocator::files, each with its sections and symbols
  symbolTable,   \* Global.symbolTable: label name -> label
  outputData,    \* ElfRelocator::outputData
  dataChanged,   \* ElfRelocator::dataChanged
  memoryAddress, \* the caller's variable relocate writes back
  passStart,     \* the memoryAddress of the last relocate call
  lastOp,        \* the last operation that ran
  lastRet,       \* what it returned
  placeLog,      \* last pass: the section placements of Phase A
  copyLog,       \* last pass: the section images copied in Phase B
  relLog,        \* last pass: the relocation entries processed in Phase B
  comLog,        \* last pass: the COMMON allocations of Phase C
  hist,          \* what happened so far: the labels others defined, whether
                 \* exportSymbols and relocate ran, whether the last pass
                 \* directly followed a pass (with the same start), and the
                 \* same of the pass before it
  crashed,       \* the process was stopped by a division by zero
  arInput,       \* loadArArchive: the path and the bytes of the input file
  arResult       \* loadArArchive: whether it ran, and the entries it returned

vars == << files, symbolTable, outputData, dataChanged, memoryAddress, passStart,
           lastOp, lastRet, placeLog, copyLog, relLog, comLog, hist, crashed,
           arInput, arResult >>

relocatorVars == << files, symbolTable, outputData, dataChanged, memoryAddress, passStart,
                    lastOp, lastRet, placeLog, copyLog, relLog, comLog, hist, crashed >>

arVars == << arInput, arResult >>

\* the archives init can load: up to MaxFiles objects, in any order
Archives == UNION {[1..n -> 1..Len(ElfObjects)] : n \in 1..MaxFiles}

\* what an uninitialised relocatedAddress may hold
Garbage == {0, 4100}

\* the addresses relocate is called with
StartAddresses == {4096, 4098}

\* the labels the rest of the assembler may define, and the value it gives
DefinableLabels == {N_ext, N_buf}
DefinedValues == {64}

NoArInput == [path |-> <<>>, data |-> <<>>]
\* nothing has happened yet
NoHistory ==
  [defines |-> 0, foreign |-> {}, met |-> {}, exported |-> FALSE, passed |-> FALSE,
   consecutive |-> FALSE, repeat |-> FALSE, prevChanged |-> FALSE,
   prevConsecutive |-> FALSE]
NoArResult == [done |-> FALSE, entries |-> <<>>]

\* the state after init(inputName) returned true
Init ==
  /\ \E archive \in Archives, garbage \in Garbage :
       files = [fi \in 1..Len(archive) |-> LoadFile(archive[fi], garbage)]
  /\ symbolTable = [n \in Labels |-> NewLabel]
  /\ outputData = <<>>
  /\ dataChanged \in BOOLEAN
  /\ memoryAddress = 0
  /\ passStart = 0
  /\ lastOp = "init"
  /\ lastRet = TRUE
  /\ placeLog = <<>>
  /\ copyLog = <<>>
  /\ relLog = <<>>
  /\ comLog = <<>>
  /\ hist = NoHistory
  /\ crashed = FALSE
  /\ arInput = NoArInput
  /\ arResult = NoArResult

\* bool ElfRelocator::exportSymbols()
ExportSymbols ==
  /\ ~crashed
  /\ \E r \in {exportSymbols(files, symbolTable, hist.foreign, hist.met)} :
         /\ files' = r.files
         /\ symbolTable' = r.table
         /\ lastRet' = ~r.error
         /\ hist' = [hist EXCEPT !.met = r.met, !.exported = TRUE]
  /\ lastOp' = "exportSymbols"
  /\ UNCHANGED << outputData, dataChanged, memoryAddress, passStart, placeLog, copyLog,
                  relLog, comLog, crashed, arVars >>

\* bool ElfRelocator::relocate(int& memoryAddress)
Relocate(start) ==
  /\ ~crashed
  /\ \E r \in {relocate(files, symbolTable, outputData, start)} :
         IF r.trap
         THEN /\ crashed' = TRUE
              /\ UNCHANGED << files, symbolTable, outputData, dataChanged, memoryAddress,
                              passStart, lastOp, lastRet, placeLog, copyLog, relLog,
                              comLog, hist >>
         ELSE /\ files' = r.files
              /\ symbolTable' = r.table
              /\ outputData' = r.out
              /\ dataChanged' = r.changed
              /\ memoryAddress' = r.addr
              /\ passStart' = start
              /\ lastOp' = "relocate"
              /\ lastRet' = r.ok
              /\ placeLog' = r.placeLog
              /\ copyLog' = r.copyLog
              /\ relLog' = r.relLog
              /\ comLog' = r.comLog
              /\ hist' = [hist EXCEPT
                            !.passed = TRUE,
                            !.consecutive = (lastOp = "relocate"),
                            !.repeat = (lastOp = "relocate" /\ passStart = start),
                            !.prevChanged = dataChanged,
                            !.prevConsecutive = hist.consecutive]
              /\ crashed' = FALSE
  /\ UNCHANGED arVars

\* the rest of the assembler defines a label that is not defined yet
DefineLabel(name, value) ==
  /\ ~crashed
  /\ hist.defines < MaxDefines
  /\ ~symbolTable[name].defined
  /\ symbolTable' = [symbolTable EXCEPT ![name] =
                       [@ EXCEPT !.defined = TRUE, !.value = value, !.data = TRUE]]
  /\ hist' = [hist EXCEPT !.defines = @ + 1, !.foreign = @ \cup {name}]
  /\ lastOp' = "define"
  /\ UNCHANGED << files, outputData, dataChanged, memoryAddress, passStart, lastRet,
                  placeLog, copyLog, relLog, comLog, crashed, arVars >>

Next ==
  \/ ExportSymbols
  \/ \E start \in StartAddresses : Relocate(start)
  \/ \E name \in DefinableLabels, value \in DefinedValues : DefineLabel(name, value)

Spec == Init /\ [][Next]_vars


(***************************************************************************)
(* The archive reader on its own: every input path with every input file.  *)
(***************************************************************************)
InitAr ==
  /\ arInput \in [path : InputPaths, data : InputFiles]
  /\ arResult = NoArResult
  /\ files = <<>>
  /\ symbolTable = [n \in Labels |-> NewLabel]
  /\ outputData = <<>>
  /\ dataChanged = FALSE
  /\ memoryAddress = 0
  /\ passStart = 0
  /\ lastOp = "init"
  /\ lastRet = TRUE
  /\ placeLog = <<>>
  /\ copyLog = <<>>
  /\ relLog = <<>>
  /\ comLog = <<>>
  /\ hist = NoHistory
  /\ crashed = FALSE

\* std::vector<ArFileEntry> loadArArchive(const std::wstring& inputName)
LoadArArchive ==
  /\ ~arResult.done
  /\ arResult' = [done |-> TRUE, entries |-> loadArArchive(arInput.path, arInput.data)]
  /\ UNCHANGED << arInput, relocatorVars >>

NextAr == LoadArArchive

SpecAr == InitAr /\ [][NextAr]_vars


(***************************************************************************)
(* Helpers of the properties.                                              *)
(***************************************************************************)
RECURSIVE SumSeq(_)
SumSeq(q) == IF q = <<>> THEN 0 ELSE Head(q) + SumSeq(Tail(q))

\* the loadable sections of all files, as (file, section index) pairs
LoadableSections ==
  UNION {{<<fi, files[fi].sections[k].index>> : k \in 1..Len(files[fi].sections)} :
           fi \in 1..Len(files)}

SectionOf(fi, index) == getSegmentlessSection(ElfOf(files[fi]), index)

\* the part of a path after its last separator
LeafName(path) ==
  LET seps == {i \in 1..Len(path) : path[i] \in {ChSlash, ChBackslash}}
  IN  IF seps = {} THEN path
      ELSE SubSeq(path, (CHOOSE i \in seps : \A j \in seps : j <= i) + 1, Len(path))

(***************************************************************************)
(* C1: after a relocate pass, every loadable section of every object has   *)
(* an address recorded in relocationOffsets, and that address is a         *)
(* multiple of the section's alignment.                                    *)
(***************************************************************************)
C1_Alignment ==
  hist.passed =>
    /\ {<<placeLog[k].file, placeLog[k].index>> : k \in 1..Len(placeLog)}
         = LoadableSections
    /\ \A k \in 1..Len(placeLog) :
         placeLog[k].address % SectionOf(placeLog[k].file, placeLog[k].index).alignment = 0

\* a pass placed a section of alignment 16 after padding
C1_Witness ==
  /\ lastOp = "relocate"
  /\ \E k \in 1..Len(placeLog) :
       /\ SectionOf(placeLog[k].file, placeLog[k].index).alignment = 16
       /\ placeLog[k].address > placeLog[k].before

(***************************************************************************)
(* C2: at the end of a relocate pass the size of outputData is the value   *)
(* written back to memoryAddress, which is the sum of the padding and the  *)
(* sizes of all placed sections and COMMON symbols; and every section that *)
(* is not NOBITS lies in outputData at its address minus the start.        *)
(***************************************************************************)
C2_Conservation ==
  lastOp = "relocate" =>
    /\ Len(outputData) = memoryAddress
    /\ memoryAddress =
         SumSeq([k \in 1..Len(placeLog) |->
                   (placeLog[k].address - placeLog[k].before) + placeLog[k].size])
         + SumSeq([k \in 1..Len(comLog) |->
                   (comLog[k].address - comLog[k].before) + comLog[k].size])
    /\ \A k \in 1..Len(copyLog) :
         /\ copyLog[k].address - passStart + Len(copyLog[k].data) <= Len(outputData)
         /\ Mid(outputData, copyLog[k].address - passStart, Len(copyLog[k].data))
              = copyLog[k].data

\* a pass over two objects with padding, a patched section and a COMMON symbol
C2_Witness ==
  /\ lastOp = "relocate"
  /\ Len(files) = 2
  /\ comLog # <<>>
  /\ \E k \in 1..Len(placeLog) : placeLog[k].address > placeLog[k].before
  /\ \E k \in 1..Len(copyLog) :
       copyLog[k].data # SectionOf(copyLog[k].file, copyLog[k].index).data

(***************************************************************************)
(* C8: a COMMON symbol of alignment a and size s met at the running        *)
(* address addr is given the least multiple of a that is >= addr; the      *)
(* running address becomes that address + s; outputData grows by exactly   *)
(* the bytes from addr to the new running address, all zero; the address   *)
(* is never below the end of the file's section block.  With addr =        *)
(* 0x1013, a = 8 and s = 16 the address is 0x1018.                         *)
(***************************************************************************)
C8_CommonAllocation ==
  \A k \in 1..Len(comLog) :
    LET e == comLog[k]
        sym == files[e.file].symbols[e.symbol]
    IN  /\ sym.section = SHN_COMMON
        /\ e.alignment = sym.relativeAddress
        /\ e.size = sym.size
        /\ sym.relocatedAddress = e.address
        /\ e.address % e.alignment = 0
        /\ e.address >= e.before
        /\ e.address - e.before < e.alignment
        /\ e.after = e.address + e.size
        /\ e.sizeAfter - e.sizeBefore = e.address + e.size - e.before
        /\ e.sizeBefore = e.before - passStart
        /\ \A i \in (e.sizeBefore + 1)..e.sizeAfter : outputData[i] = 0
        /\ \A j \in 1..Len(placeLog) :
             placeLog[j].file = e.file => placeLog[j].address + placeLog[j].size <= e.before
        /\ (e.before = 4115 /\ e.alignment = 8 /\ e.size = 16) => e.address = 4120

\* the sections end at 0x1013 and the COMMON symbol has a = 8 and s = 16
C8_Witness ==
  /\ lastOp = "relocate"
  /\ \E k \in 1..Len(comLog) :
       /\ comLog[k].before = 4115
       /\ comLog[k].alignment = 8
       /\ comLog[k].size = 16
       /\ comLog[k].address = 4120

(***************************************************************************)
(* C7: for an input file that starts with the ELF magic and is no ar       *)
(* archive, loadArArchive returns one entry, whose bytes are the file and  *)
(* whose name is the part of the path after its last separator.            *)
(***************************************************************************)
C7_BareElfLeafName ==
  (arResult.done /\ StartsWith(arInput.data, 0, ElfMagic)) =>
    /\ Len(arResult.entries) = 1
    /\ arResult.entries[1].data = arInput.data
    /\ arResult.entries[1].name = LeafName(arInput.path)


(***************************************************************************)
(* More helpers: the relocation entries a pass must process, the external  *)
(* names a file references, and the labels the symbols of a file write.    *)
(***************************************************************************)
\* the entries of the relocation section of a loadable section
RelsOf(fi, k) ==
  LET entry == files[fi].sections[k]
  IN  IF entry.relSection = NULL THEN <<>>
      ELSE getSegmentlessSection(ElfOf(files[fi]), entry.relSection[1]).rels

\* (file, section index, entry) of every entry of a section that is copied
ExpectedEntries ==
  UNION {UNION {{<<fi, files[fi].sections[k].index, i - 1>> : i \in 1..Len(RelsOf(fi, k))} :
                  k \in {k \in 1..Len(files[fi].sections) :
                           SectionOf(fi, files[fi].sections[k].index).type # SHT_NOBITS}} :
           fi \in 1..Len(files)}

CopiedSections ==
  {p \in LoadableSections : SectionOf(p[1], p[2]).type # SHT_NOBITS}

EventName(ev) == toWLowercase(getSymbol(ElfOf(files[ev.file]), ev.symNum).st_name)

\* the names file fi references as external symbols
ExternRefs(fi) ==
  {toWLowercase(getSymbol(ElfOf(files[fi]), e[2]).st_name) :
     e \in {e \in UNION {{<<k, getSymbolNum(RelsOf(fi, k)[i])>> :
                            i \in 1..Len(RelsOf(fi, k))} :
                           k \in {k \in 1..Len(files[fi].sections) :
                                    SectionOf(fi, files[fi].sections[k].index).type
                                      # SHT_NOBITS}} :
              /\ e[2] > 0
              /\ getSymbol(ElfOf(files[fi]), e[2]).st_shndx = 0
              /\ getSymbol(ElfOf(files[fi]), e[2]).st_info % 16 = STT_NOTYPE}}

\* the names whose label the symbols of file fi write in Phase C
Carried(fi) ==
  {files[fi].symbols[j].name :
     j \in {j \in 1..Len(files[fi].symbols) : files[fi].symbols[j].label # NULL}}

\* no external reference to a name that a symbol of the same or a later object
\* carries
NoForwardExtern ==
  \A fi \in 1..Len(files) : \A fj \in fi..Len(files) : ExternRefs(fi) \cap Carried(fj) = {}

LabelValues == [n \in Labels |-> symbolTable[n].value]

\* where the word a relocation entry patches lies in outputData (0-based)
WordIndex(ev) ==
  LET c == CHOOSE k \in 1..Len(copyLog) :
             copyLog[k].file = ev.file /\ copyLog[k].index = ev.index
  IN  copyLog[c].address - passStart + ev.pos

(***************************************************************************)
(* C5: an external reference whose label is defined when the entry is      *)
(* processed gives the hook that label's value as relocationBase; one      *)
(* whose label is not defined queues an error, leaves the word as it is in *)
(* outputData, lets the pass process every other entry, section and        *)
(* object, and makes relocate return failure.                              *)
(***************************************************************************)
C5_ExternalResolution ==
  /\ hist.passed =>
       /\ {<<relLog[k].file, relLog[k].index, relLog[k].entry>> : k \in 1..Len(relLog)}
            = ExpectedEntries
       /\ {<<copyLog[k].file, copyLog[k].index>> : k \in 1..Len(copyLog)} = CopiedSections
  /\ \A k \in 1..Len(relLog) :
       LET ev == relLog[k]
       IN  ev.extern =>
             IF ev.labelDefined
             THEN /\ ev.invoked
                  /\ ev.relocationBase = ev.labelValue
                  /\ (\A fi \in 1..Len(files) : ~(EventName(ev) \in Carried(fi)))
                       => ev.relocationBase = symbolTable[EventName(ev)].value
             ELSE /\ ev.msg \in {"Invalid external symbol", "Undefined external symbol"}
                  /\ ~ev.invoked
                  /\ getDoubleWord(outputData, WordIndex(ev))
                       = getDoubleWord(SectionOf(ev.file, ev.index).data, ev.pos)
                  /\ lastOp = "relocate" => lastRet = FALSE

\* one pass met an undefined external symbol in its first object and resolved
\* a defined one with a value other than 0 afterwards
C5_Witness ==
  /\ lastOp = "relocate"
  /\ lastRet = FALSE
  /\ \E k \in 1..Len(relLog) :
       /\ relLog[k].extern /\ ~relLog[k].labelDefined
       /\ \E j \in (k + 1)..Len(relLog) :
            /\ relLog[j].extern /\ relLog[j].labelDefined /\ relLog[j].invoked
            /\ relLog[j].relocationBase > 0
            /\ relLog[j].file > relLog[k].file

(***************************************************************************)
(* C10: the relocationBase of a reference to a symbol that is not external *)
(* and is a retained symbol of the same object is the relocated address    *)
(* Phase C of the same pass gives that symbol, whatever its section index. *)
(***************************************************************************)
C10_InternalBase ==
  \A k \in 1..Len(relLog) :
    LET ev == relLog[k]
    IN  (ev.invoked /\ ~ev.extern) =>
          \A j \in 1..Len(files[ev.file].symbols) :
            files[ev.file].symbols[j].elfIndex = ev.symNum
              => ev.relocationBase = files[ev.file].symbols[j].relocatedAddress

(***************************************************************************)
(* C9: a label that exportSymbols found already defined by someone else is *)
(* never modified by the relocator: it stays what the definer set.         *)
(***************************************************************************)
C9_ForeignLabelUntouched ==
  \A m \in hist.met : symbolTable[m.name] = m.label

(***************************************************************************)
(* C6: every retained symbol is published at most once; an exportSymbols   *)
(* call that leaves a symbol unpublished because its label is defined by   *)
(* someone else returns failure; the other symbols are published.          *)
(***************************************************************************)
C6_ExportOnce ==
  /\ \A fi \in 1..Len(files) : \A j \in 1..Len(files[fi].symbols) :
       files[fi].symbols[j].published <= 1
  /\ lastOp = "exportSymbols" =>
       /\ (\E fi \in 1..Len(files) : \E j \in 1..Len(files[fi].symbols) :
             LET sym == files[fi].symbols[j]
             IN  /\ sym.published = 0
                 /\ isValidSymbolName(sym.name)
                 /\ symbolTable[sym.name].defined)
            => lastRet = FALSE
       /\ \A fi \in 1..Len(files) : \A j \in 1..Len(files[fi].symbols) :
            LET sym == files[fi].symbols[j]
            IN  (sym.published = 0 /\ isValidSymbolName(sym.name))
                  => symbolTable[sym.name].defined

(***************************************************************************)
(* C3: once a pass ends with dataChanged false, one more pass with the     *)
(* same start and nothing in between changes neither outputData nor a      *)
(* label value, and ends with dataChanged false.                           *)
(***************************************************************************)
C3_Original ==
  [][(/\ lastOp = "relocate" /\ ~dataChanged
      /\ lastOp' = "relocate" /\ passStart' = passStart /\ ~crashed')
       => (/\ outputData' = outputData
           /\ LabelValues' = LabelValues
           /\ ~dataChanged')]_vars

(***************************************************************************)
(* C3 as amended: the same, for a pass that itself directly followed a     *)
(* relocate pass (no exportSymbols call and no other writer of the symbol  *)
(* table between the two).                                                 *)
(***************************************************************************)
C3_Idempotence ==
  [][(/\ lastOp = "relocate" /\ ~dataChanged /\ hist.consecutive
      /\ lastOp' = "relocate" /\ passStart' = passStart /\ ~crashed')
       => (/\ outputData' = outputData
           /\ LabelValues' = LabelValues
           /\ ~dataChanged')]_vars

\* a pass that patched an external reference followed a pass with the same
\* start that had ended with dataChanged false and had itself followed a pass
C3_Witness ==
  /\ lastOp = "relocate"
  /\ hist.repeat /\ ~hist.prevChanged /\ hist.prevConsecutive /\ hist.exported
  /\ ~dataChanged
  /\ \E k \in 1..Len(relLog) :
       relLog[k].extern /\ relLog[k].invoked /\ relLog[k].relocationBase > 0

(***************************************************************************)
(* C4: after exportSymbols, the second of two passes in a row with the     *)
(* same start ends with dataChanged false and the outputData of the first. *)
(***************************************************************************)
C4_Original ==
  [][(/\ hist.exported /\ lastOp = "relocate"
      /\ lastOp' = "relocate" /\ passStart' = passStart /\ ~crashed')
       => (~dataChanged' /\ outputData' = outputData)]_vars

(***************************************************************************)
(* C4 as amended: the same, for objects none of which references an        *)
(* external symbol that a retained symbol of the same or a later object    *)
(* carries.                                                                *)
(***************************************************************************)
C4_SecondPassConverges ==
  [][(/\ hist.exported /\ lastOp = "relocate" /\ NoForwardExtern
      /\ lastOp' = "relocate" /\ passStart' = passStart /\ ~crashed')
       => (~dataChanged' /\ outputData' = outputData)]_vars

\* the second of two passes after exportSymbols, over objects with a COMMON
\* symbol and a reference to a symbol another object exports
C4_Witness ==
  /\ lastOp = "relocate"
  /\ hist.repeat /\ hist.exported /\ hist.prevChanged
  /\ NoForwardExtern
  /\ ~dataChanged
  /\ comLog # <<>>
  /\ \E k \in 1..Len(relLog) :
       /\ relLog[k].extern /\ relLog[k].invoked /\ relLog[k].relocationBase > 0
       /\ \E fi \in 1..(relLog[k].file - 1) : EventName(relLog[k]) \in Carried(fi)


====
